---- MODULE Spec2Model ----
(***************************************************************************)
(* Model of the support system: the receiver (Networks/receiver.py: risk   *)
(* policy, classifier adapter, POST /api/support handler, session log) and *)
(* the sender (Networks/sender.py: send_message and its transcript).       *)
(*                                                                         *)
(* Scores are floats in [0,1] in the code; here they are tenths, 0..10,    *)
(* so that 0.5 is 5.  st.session_state is modelled as the process-wide     *)
(* object the code treats it as.  The handler is split at every access to  *)
(* shared state, since waitress serves requests on several threads.        *)
(***************************************************************************)
EXTENDS Integers, Sequences, FiniteSets, TLC

\* ---- bounds of the model ------------------------------------------------
NumThreads == 2       \* waitress worker threads modelled
MaxRequests == 2      \* requests received in one behaviour
MaxScore == 10        \* score 1.0 in tenths
MaxSends == 3         \* send_message calls in one behaviour

Threads == 1..NumThreads
Scores == 0..MaxScore

\* ---- values ---------------------------------------------------------------
Absent == "<absent>"      \* a key the JSON object does not carry
None == "None"            \* Python's None

\* ---- risk policy (receiver.py get_response) ---------------------------------
high_risk_emotions == {"sadness", "fear", "grief"}

HighRiskThreshold == 5    \* score > 0.5

CrisisMessage ==
    << "I hear how much pain you're in, and I want you to know that your life has value. Please reach out to the crisis helpline immediately at",
       "988",
       "- they are available 24/7 and want to support you. You don't have to go through this alone." >>

GenericMessage ==
    << "Thank you for reaching out. It takes courage to share these feelings. While I'm here to listen, it's important to connect with mental health professionals who can provide the support you need." >>

get_response_ge(emotion, score) ==
    IF emotion \in high_risk_emotions /\ score >= HighRiskThreshold
    THEN [message |-> CrisisMessage, risk_level |-> "high"]
    ELSE [message |-> GenericMessage, risk_level |-> "medium"]

get_response(emotion, score) ==
    IF emotion \in high_risk_emotions /\ score > HighRiskThreshold
    THEN [message |-> CrisisMessage, risk_level |-> "high"]
    ELSE [message |-> GenericMessage, risk_level |-> "medium"]

\* ---- request bodies ---------------------------------------------------------
\* kind: "missing" (no body, or no JSON content type), "unparseable" (not
\* JSON), "falsy" (JSON null, 0, "", [] or false), "nonobject" (any other JSON
\* value that is no object, such as [1]) and "object".
JsonObject(m, c, o) == [kind |-> "object", message |-> m, client_id |-> c, other |-> o]
NonObject(k) == [kind |-> k, message |-> Absent, client_id |-> Absent, other |-> FALSE]

Bodies ==
    { NonObject("missing"), NonObject("unparseable"), NonObject("falsy"),
      NonObject("nonobject"),
      JsonObject(Absent, Absent, FALSE),            \* {}
      JsonObject(Absent, Absent, TRUE),             \* {"x": 1}
      JsonObject(Absent, "c1", FALSE),              \* {"client_id": "c1"}
      JsonObject("", Absent, FALSE),                \* {"message": ""}
      JsonObject("", "c1", FALSE),
      JsonObject("I feel hopeless", Absent, FALSE),
      JsonObject("I feel hopeless", "c1", FALSE),
      JsonObject("I had a fine day", "c2", FALSE) }

\* `not data` for a parsed JSON object: a dict is falsy when it has no key
IsEmptyDict(b) == b.message = Absent /\ b.client_id = Absent /\ ~b.other

\* data.get(key, default)
DictGetNoDefault(v, default) == IF v = Absent THEN "" ELSE v

DictGet(v, default) == IF v = Absent THEN default ELSE v

\* what the model pipeline can answer: result[0]['label'], result[0]['score']
ClassifierOutputs ==
    { <<"sadness", 9>>, <<"sadness", 5>>, <<"neutral", 8>>, <<"grief", 6>> }

Sentinel == <<"unknown", 0>>

NoResponse == [message |-> << >>, risk_level |-> "none"]
NoResult == [status |-> 0, body |-> [error |-> "none"]]

VARIABLES
    \* receiver: shared state
    model,          \* st.session_state.model: None or "pipeline"
    locked,         \* whether st.cache_resource computes a missing entry under a lock
    cache,          \* st.cache_resource entry of load_model: "miss", None, "pipeline"
    messages,       \* st.session_state.messages
    emotion_data,   \* st.session_state.emotion_data
    now,            \* the clock datetime.now() reads
    \* receiver: one handler invocation per thread
    pc, req, message, client_id, loaded, emotion, score, response, timestamp,
    result,
    \* receiver: history
    nreq,           \* requests received so far
    loadCalls,      \* calls of load_model made by analyze_emotions
    initRuns,       \* executions of load_model's body
    analyzed,       \* analyzed[t]: the current request called analyze_emotions
    failure,        \* failure[t]: "none", "load" or "invoke"
    len0,           \* len0[t]: lengths of the two lists when the request arrived
    served,         \* the requests answered so far, in order of answer
    \* risk policy on its own
    polEmotion, polScore, polResult,
    \* sender
    server_url,     \* st.session_state.server_url
    transcript,     \* the sender's st.session_state.messages
    clock,          \* the clock the sender's datetime.now() reads
    ret,            \* what the last send_message call returned
    netCalls,       \* requests.post calls made so far
    nsend,          \* send_message calls made so far
    lastCall        \* the last send_message call: its inputs and the state before it

rshared == <<model, locked, cache, messages, emotion_data, now>>
rlocal == <<pc, req, message, client_id, loaded, emotion, score, response, timestamp, result>>
rhist == <<nreq, loadCalls, initRuns, analyzed, failure, len0, served>>
rvars == <<rshared, rlocal, rhist>>
pvars == <<polEmotion, polScore, polResult>>
svars == <<server_url, transcript, clock, ret, netCalls, nsend, lastCall>>
vars == <<rvars, pvars, svars>>

\* ---- Flask: request.json (receiver.py line 119) -------------------------------
\* The outcomes of `request.json`: "raise" (werkzeug BadRequest for a body that
\* is not JSON; UnsupportedMediaType for a request without JSON content type
\* in Flask >= 2.1), "None" (a request without JSON content type in older
\* Flask) or "value" (the parsed JSON value).
request_json(b) ==
    CASE b.kind = "missing" -> {"None", "raise"}
      [] b.kind = "unparseable" -> {"raise"}
      [] OTHER -> {"value"}

\* receiver.py lines 118-127 and 158-160: what the validation decides for body
\* b when request.json ended with rj.
ValidateMessageFirst(b, rj) ==
    IF rj = "raise" THEN "error500"
    ELSE IF rj = "None" \/ b.kind = "falsy" THEN "nojson"
    ELSE IF b.kind = "nonobject" THEN "error500"
    ELSE IF DictGet(b.message, "") = "" THEN "empty"
    ELSE "ok"

Validate(b, rj) ==
    IF rj = "raise" THEN "error500"                       \* except Exception
    ELSE IF rj = "None" \/ b.kind = "falsy" THEN "nojson" \* not data
    ELSE IF b.kind = "object" /\ IsEmptyDict(b) THEN "nojson"
    ELSE IF b.kind = "nonobject" THEN "error500"          \* data.get: AttributeError
    ELSE IF DictGet(b.message, "") = "" THEN "empty"      \* not message
    ELSE "ok"

NoJsonBody == [error |-> "No JSON data received"]
EmptyMessageBody == [error |-> "Empty message"]
InternalErrorBody == [error |-> "Internal server error"]

\* ---- receiver: initial state --------------------------------------------------
InitReceiver ==
    /\ model = None
    /\ locked \in BOOLEAN
    /\ cache = "miss"
    /\ messages = << >>
    /\ emotion_data = << >>
    /\ now = 0
    /\ pc = [t \in Threads |-> "idle"]
    /\ req = [t \in Threads |-> NonObject("missing")]
    /\ message = [t \in Threads |-> ""]
    /\ client_id = [t \in Threads |-> ""]
    /\ loaded = [t \in Threads |-> None]
    /\ emotion = [t \in Threads |-> ""]
    /\ score = [t \in Threads |-> 0]
    /\ response = [t \in Threads |-> NoResponse]
    /\ timestamp = [t \in Threads |-> 0]
    /\ result = [t \in Threads |-> NoResult]
    /\ nreq = 0
    /\ loadCalls = 0
    /\ initRuns = 0
    /\ analyzed = [t \in Threads |-> FALSE]
    /\ failure = [t \in Threads |-> "none"]
    /\ len0 = [t \in Threads |-> <<0, 0>>]
    /\ served = << >>

InitPolicyIdle ==
    /\ polEmotion = ""
    /\ polScore = 0
    /\ polResult = NoResponse

\* ---- receiver: the handler, step by step --------------------------------------
\* The handler returns (status, body): the thread goes back to idle and its
\* locals are dropped.  (The step that answers sets failure' before this.)
Answer(t, st, body) ==
    /\ result' = [result EXCEPT ![t] = [status |-> st, body |-> body]]
    /\ served' = Append(served,
                        [req |-> req[t], status |-> st, body |-> body,
                         analyzed |-> analyzed[t], failure |-> failure'[t],
                         emotion |-> emotion[t], score |-> score[t],
                         len0 |-> len0[t],
                         len1 |-> <<Len(messages'), Len(emotion_data')>>])
    /\ pc' = [pc EXCEPT ![t] = "idle"]
    /\ message' = [message EXCEPT ![t] = ""]
    /\ client_id' = [client_id EXCEPT ![t] = ""]
    /\ loaded' = [loaded EXCEPT ![t] = None]
    /\ emotion' = [emotion EXCEPT ![t] = ""]
    /\ score' = [score EXCEPT ![t] = 0]
    /\ response' = [response EXCEPT ![t] = NoResponse]
    /\ timestamp' = [timestamp EXCEPT ![t] = 0]

\* a request reaches the route (line 110) on an idle worker thread
Start(t) ==
    /\ pc[t] = "idle"
    /\ nreq < MaxRequests
    /\ \E b \in Bodies : req' = [req EXCEPT ![t] = b]
    /\ pc' = [pc EXCEPT ![t] = "parse"]
    /\ result' = [result EXCEPT ![t] = NoResult]
    /\ nreq' = nreq + 1
    /\ analyzed' = [analyzed EXCEPT ![t] = FALSE]
    /\ failure' = [failure EXCEPT ![t] = "none"]
    /\ len0' = [len0 EXCEPT ![t] = <<Len(messages), Len(emotion_data)>>]
    /\ UNCHANGED <<rshared, message, client_id, loaded, emotion, score, response,
                   timestamp, loadCalls, initRuns, served, pvars, svars>>

\* requests handled one after another: a request arrives when no handler runs
StartSeq(t) ==
    /\ \A u \in Threads : pc[u] = "idle"
    /\ Start(t)

\* lines 118-129 (and 158-160 when request.json or data.get raises)
Parse(t) ==
    /\ pc[t] = "parse"
    /\ \E rj \in request_json(req[t]) :
         LET v == Validate(req[t], rj) IN
         \/ /\ v = "ok"
            /\ message' = [message EXCEPT ![t] = DictGet(req[t].message, "")]
            /\ client_id' = [client_id EXCEPT ![t] = DictGet(req[t].client_id, "unknown")]
            /\ analyzed' = [analyzed EXCEPT ![t] = TRUE]
            /\ pc' = [pc EXCEPT ![t] = "check_model"]
            /\ UNCHANGED <<rshared, req, loaded, emotion, score, response, timestamp,
                           result, nreq, loadCalls, initRuns, failure, len0, served>>
         \/ /\ v # "ok"
            /\ UNCHANGED <<rshared, req, nreq, loadCalls, initRuns, analyzed, failure, len0>>
            /\ Answer(t, IF v = "error500" THEN 500 ELSE 400,
                      CASE v = "nojson" -> NoJsonBody
                        [] v = "empty" -> EmptyMessageBody
                        [] OTHER -> InternalErrorBody)
    /\ UNCHANGED <<pvars, svars>>

\* analyze_emotions, line 66: if st.session_state.model is None
CheckModel(t) ==
    /\ pc[t] = "check_model"
    /\ pc' = [pc EXCEPT ![t] = IF model = None THEN "load_call" ELSE "check_loaded"]
    /\ UNCHANGED <<rshared, req, message, client_id, loaded, emotion, score, response,
                   timestamp, result, rhist, pvars, svars>>

\* line 67, right-hand side: load_model() is called
LoadCall(t) ==
    /\ pc[t] = "load_call"
    /\ loadCalls' = loadCalls + 1
    /\ pc' = [pc EXCEPT ![t] = "load_lookup"]
    /\ UNCHANGED <<rshared, req, message, client_id, loaded, emotion, score, response,
                   timestamp, result, nreq, initRuns, analyzed, failure, len0, served, pvars, svars>>

\* line 36, @st.cache_resource: the memoized value is returned when there is
\* one; otherwise the body runs (under the entry's lock where the cache has one)
LoadLookup(t) ==
    /\ pc[t] = "load_lookup"
    /\ locked => \A u \in Threads : pc[u] # "load_body"
    /\ IF cache = "miss"
       THEN /\ pc' = [pc EXCEPT ![t] = "load_body"]
            /\ UNCHANGED loaded
       ELSE /\ pc' = [pc EXCEPT ![t] = "assign"]
            /\ loaded' = [loaded EXCEPT ![t] = cache]
    /\ UNCHANGED <<rshared, req, message, client_id, emotion, score, response,
                   timestamp, result, rhist, pvars, svars>>

\* lines 44-53: the body of load_model; the pipeline, or None when loading fails
load_model(t) ==
    /\ pc[t] = "load_body"
    /\ initRuns' = initRuns + 1
    /\ \E ok \in BOOLEAN :
         /\ cache' = IF ok THEN "pipeline" ELSE None
         /\ loaded' = [loaded EXCEPT ![t] = IF ok THEN "pipeline" ELSE None]
    /\ pc' = [pc EXCEPT ![t] = "assign"]
    /\ UNCHANGED <<model, locked, messages, emotion_data, now, req, message, client_id,
                   emotion, score, response, timestamp, result, nreq, loadCalls,
                   analyzed, failure, len0, served, pvars, svars>>

\* line 67, the assignment: st.session_state.model = <what load_model returned>
Assign(t) ==
    /\ pc[t] = "assign"
    /\ model' = loaded[t]
    /\ pc' = [pc EXCEPT ![t] = "check_loaded"]
    /\ UNCHANGED <<locked, cache, messages, emotion_data, now, req, message, client_id,
                   loaded, emotion, score, response, timestamp, result, rhist, pvars, svars>>

CheckLoadedRaise(t) ==
    /\ pc[t] = "check_loaded"
    /\ UNCHANGED <<rshared, req, nreq, loadCalls, initRuns, len0, pvars, svars>>
    /\ IF model = None
       THEN /\ failure' = [failure EXCEPT ![t] = "load"]
            /\ UNCHANGED analyzed
            /\ Answer(t, 500, InternalErrorBody)
       ELSE /\ pc' = [pc EXCEPT ![t] = "invoke"]
            /\ UNCHANGED <<message, client_id, loaded, emotion, score, response,
                           timestamp, result, analyzed, failure, served>>

\* lines 69-70: if st.session_state.model is None: return "unknown", 0.0
CheckLoaded(t) ==
    /\ pc[t] = "check_loaded"
    /\ IF model = None
       THEN /\ emotion' = [emotion EXCEPT ![t] = Sentinel[1]]
            /\ score' = [score EXCEPT ![t] = Sentinel[2]]
            /\ failure' = [failure EXCEPT ![t] = "load"]
            /\ pc' = [pc EXCEPT ![t] = "policy"]
       ELSE /\ pc' = [pc EXCEPT ![t] = "invoke"]
            /\ UNCHANGED <<emotion, score, failure>>
    /\ UNCHANGED <<rshared, req, message, client_id, loaded, response, timestamp,
                   result, nreq, loadCalls, initRuns, analyzed, len0, served, pvars, svars>>

\* lines 72-76: the pipeline is invoked; it answers, or it raises and the
\* except clause yields the sentinel (calling None raises too)
Invoke(t) ==
    /\ pc[t] = "invoke"
    /\ \/ /\ model # None
          /\ \E out \in ClassifierOutputs :
               /\ emotion' = [emotion EXCEPT ![t] = out[1]]
               /\ score' = [score EXCEPT ![t] = out[2]]
          /\ UNCHANGED failure
       \/ /\ emotion' = [emotion EXCEPT ![t] = Sentinel[1]]
          /\ score' = [score EXCEPT ![t] = Sentinel[2]]
          /\ failure' = [failure EXCEPT ![t] = "invoke"]
    /\ pc' = [pc EXCEPT ![t] = "policy"]
    /\ UNCHANGED <<rshared, req, message, client_id, loaded, response, timestamp,
                   result, nreq, loadCalls, initRuns, analyzed, len0, served, pvars, svars>>

\* lines 135-146: response = get_response(emotion, score); timestamp = now()
Policy(t) ==
    /\ pc[t] = "policy"
    /\ response' = [response EXCEPT ![t] = get_response(emotion[t], score[t])]
    /\ timestamp' = [timestamp EXCEPT ![t] = now]
    /\ now' = now + 1
    /\ pc' = [pc EXCEPT ![t] = "append_messages"]
    /\ UNCHANGED <<model, locked, cache, messages, emotion_data, req, message, client_id,
                   loaded, emotion, score, result, rhist, pvars, svars>>

AppendMessagesFront(t) ==
    /\ pc[t] = "append_messages"
    /\ messages' = <<[timestamp |-> timestamp[t], client_id |-> client_id[t],
                      message |-> message[t], emotion |-> emotion[t],
                      score |-> score[t], response |-> response[t].message]>> \o messages
    /\ pc' = [pc EXCEPT ![t] = "append_emotion"]
    /\ UNCHANGED <<model, locked, cache, emotion_data, now, req, message, client_id,
                   loaded, emotion, score, response, timestamp, result, rhist, pvars, svars>>

\* line 148: st.session_state.messages.append(entry)
AppendMessages(t) ==
    /\ pc[t] = "append_messages"
    /\ messages' = Append(messages,
                          [timestamp |-> timestamp[t], client_id |-> client_id[t],
                           message |-> message[t], emotion |-> emotion[t],
                           score |-> score[t], response |-> response[t].message])
    /\ pc' = [pc EXCEPT ![t] = "append_emotion"]
    /\ UNCHANGED <<model, locked, cache, emotion_data, now, req, message, client_id,
                   loaded, emotion, score, response, timestamp, result, rhist, pvars, svars>>

\* lines 149-156: st.session_state.emotion_data.append(...); return response, 200
AppendEmotion(t) ==
    /\ pc[t] = "append_emotion"
    /\ emotion_data' = Append(emotion_data,
                              [timestamp |-> timestamp[t], emotion |-> emotion[t],
                               score |-> score[t], client_id |-> client_id[t]])
    /\ UNCHANGED <<model, locked, cache, messages, now, req, nreq, loadCalls, initRuns,
                   analyzed, failure, len0, pvars, svars>>
    /\ Answer(t, 200, response[t])

Handler(t) ==
    \/ Parse(t) \/ CheckModel(t) \/ LoadCall(t) \/ LoadLookup(t) \/ load_model(t)
    \/ Assign(t) \/ CheckLoaded(t) \/ Invoke(t) \/ Policy(t)
    \/ AppendMessages(t) \/ AppendEmotion(t)

\* ---- sender (sender.py) ---------------------------------------------------------
SenderClientId == "uuid4"     \* st.session_state.client_id, line 18

Prompts == {"I feel hopeless", "I had a fine day"}

\* what requests.post can end with: a network exception, or a response with
\* a status and a body; a body is no JSON, or JSON with or without the keys
\* "message" and "risk_level" (a JSON value that is no object has neither)
\* "keys" are the keys among "message" and "risk_level" the JSON value carries
JsonBody(keys, m, r) == [kind |-> "json", keys |-> keys, message |-> m, risk_level |-> r]
NotJsonBody == [kind |-> "notjson", keys |-> {}, message |-> << >>, risk_level |-> ""]
BothKeys == {"message", "risk_level"}
ErrorBody == JsonBody({}, << >>, "")

NetException == [net |-> "exception", status |-> 0, body |-> NotJsonBody]
Response(st, b) == [net |-> "response", status |-> st, body |-> b]
NoNetwork == [net |-> "none", status |-> 0, body |-> NotJsonBody]

ServerOutcomes ==
    { NetException,
      Response(200, JsonBody(BothKeys, CrisisMessage, "high")),
      Response(200, JsonBody(BothKeys, GenericMessage, "medium")),
      Response(200, JsonBody({"risk_level"}, << >>, "medium")),
      Response(200, JsonBody({"message"}, GenericMessage, "")),
      Response(200, ErrorBody),
      Response(200, NotJsonBody),
      Response(400, ErrorBody),
      Response(500, ErrorBody),
      Response(502, NotJsonBody) }

UserTurn(ts, msg) == [timestamp |-> ts, role |-> "user", content |-> msg]
AssistantTurn(ts, b) ==
    [timestamp |-> ts, role |-> "assistant", content |-> b.message,
     risk_level |-> b.risk_level]

\* not st.session_state.server_url (line 31)
UrlUnset(u) == u = None \/ u = ""

TurnsOptimistic(msg, o, ts) ==
    IF o.net = "none" THEN << >>
    ELSE IF o.net = "response" /\ o.status = 200 /\ o.body.kind = "json"
            /\ o.body.keys = BothKeys
         THEN << UserTurn(ts, msg), AssistantTurn(ts, o.body) >>
         ELSE << UserTurn(ts, msg) >>

\* lines 48-63: the turns send_message appends when requests.post ended with
\* o.  response.json() (line 49) raises for a body that is no JSON, before any
\* append; the user turn is appended (line 53) before the assistant turn is
\* built (lines 58-63), and building it raises when a key is missing.
Turns(msg, o, ts) ==
    IF o.net = "response" /\ o.status = 200 /\ o.body.kind = "json"
    THEN IF o.body.keys = BothKeys
         THEN << UserTurn(ts, msg), AssistantTurn(ts, o.body) >>
         ELSE << UserTurn(ts, msg) >>
    ELSE << >>

\* what send_message returns, or "raised" when an exception leaves it.  The
\* JSONDecodeError of response.json() is a RequestException in requests >= 2.27
\* (caught at line 70, False) and a plain ValueError before (not caught).
Returns(o) ==
    IF o.net = "none" THEN {"None"}                          \* line 33
    ELSE IF o.net = "exception" THEN {"False"}               \* lines 70-72
    ELSE IF o.status # 200 THEN {"False"}                    \* lines 66-68
    ELSE IF o.body.kind # "json" THEN {"False", "raised"}    \* line 49
    ELSE IF o.body.keys # BothKeys
         THEN {"raised"}                                     \* lines 61-62: KeyError
    ELSE {"True"}                                            \* line 65

NoCall == [url |-> None, data |-> [message |-> "", client_id |-> ""], outcome |-> NoNetwork, before |-> << >>, calls0 |-> 0]

InitSender ==
    /\ server_url = None
    /\ transcript = << >>
    /\ clock = 0
    /\ ret = "none"
    /\ netCalls = 0
    /\ nsend = 0
    /\ lastCall = NoCall

\* lines 80-81: the Connect button
Connect ==
    /\ server_url' = "http://localhost:5000"
    /\ server_url # server_url'
    /\ UNCHANGED <<transcript, clock, ret, netCalls, nsend, lastCall, rvars, pvars>>

\* lines 29-72: send_message(message), the whole call.  The chat input of line
\* 104 offers it only with a server URL set; the function is modelled for any
\* state of server_url, as its first lines provide for.
send_message(msg) ==
    /\ nsend < MaxSends
    /\ nsend' = nsend + 1
    /\ \E o \in IF UrlUnset(server_url) THEN {NoNetwork} ELSE ServerOutcomes :
         /\ netCalls' = IF o.net = "none" THEN netCalls ELSE netCalls + 1
         /\ transcript' = transcript \o Turns(msg, o, clock)
         /\ clock' = IF Turns(msg, o, clock) = << >> THEN clock ELSE clock + 1
         /\ ret' \in Returns(o)
         /\ lastCall' = [url |-> server_url,
                         data |-> [message |-> msg, client_id |-> SenderClientId],
                         outcome |-> o,
                         before |-> transcript, calls0 |-> netCalls]
    /\ UNCHANGED <<server_url, rvars, pvars>>

\* ---- the receiver with waitress's worker threads (run_server, line 172) -------
Init == InitReceiver /\ InitPolicyIdle /\ InitSender

Next == \E t \in Threads : Start(t) \/ Handler(t)

Spec == Init /\ [][Next]_vars

\* ---- the receiver handling one request at a time ------------------------------
NextSeq == \E t \in Threads : StartSeq(t) \/ Handler(t)

SpecSeq == Init /\ [][NextSeq]_vars

\* ---- the risk policy on its own -------------------------------------------------
Emotions == {"sadness", "fear", "grief", "Sadness", "GRIEF", "joy", "neutral", "unknown", ""}

InitPolicy ==
    /\ InitReceiver
    /\ polEmotion \in Emotions
    /\ polScore \in Scores
    /\ polResult = NoResponse
    /\ InitSender

PolicyApply ==
    /\ polResult = NoResponse
    /\ polResult' = get_response(polEmotion, polScore)
    /\ UNCHANGED <<rvars, svars, polEmotion, polScore>>

NextPolicy == PolicyApply

SpecPolicy == InitPolicy /\ [][NextPolicy]_vars

\* ---- the sender on its own ---------------------------------------------------------
NextSender == Connect \/ \E msg \in Prompts : send_message(msg)

SpecSender == Init /\ [][NextSender]_vars

\* ---- helpers of the properties --------------------------------------------------
Quiescent == \A t \in Threads : pc[t] = "idle"

IsAccepted(e) == e.status = 200

Accepted == SelectSeq(served, IsAccepted)

HasMessage(b) == b.kind = "object" /\ b.message \notin {Absent, ""}

ExpectedClientId(b) == IF b.client_id = Absent THEN "unknown" ELSE b.client_id

IsPrefix(s, u) == Len(s) <= Len(u) /\ SubSeq(u, 1, Len(s)) = s

Projection(r) ==
    [timestamp |-> r.timestamp, emotion |-> r.emotion, score |-> r.score,
     client_id |-> r.client_id]

\* ---- C1 -------------------------------------------------------------------------
\* C1: get_response answers risk_level "high" exactly when the emotion is
\* sadness, fear or grief (exact match) and the score is above 0.5; otherwise
\* "medium" (score 0.5, unknown or empty emotion included).  High carries the
\* crisis text, which names 988; medium carries the generic text.
C1_RiskPolicy ==
    polResult # NoResponse =>
        /\ polResult.risk_level \in {"high", "medium"}
        /\ (polResult.risk_level = "high")
              <=> (polEmotion \in {"sadness", "fear", "grief"} /\ polScore > 5)
        /\ polResult.risk_level = "high" =>
              /\ polResult.message = CrisisMessage
              /\ \E i \in DOMAIN polResult.message : polResult.message[i] = "988"
        /\ polResult.risk_level = "medium" => polResult.message = GenericMessage

C1_Witness ==
    /\ polResult # NoResponse
    /\ polEmotion = "sadness"
    /\ polScore = 5
    /\ polResult.risk_level = "medium"

\* ---- C2 -------------------------------------------------------------------------
\* C2: a request whose JSON body has a non-empty message is answered 200 with
\* what the risk policy returns for the classifier's (emotion, score), and the
\* session log gains one InteractionRecord and one EmotionSample that carry
\* the request's client_id, or "unknown" when the body has none.
C2_AcceptedRequest ==
    \A i \in DOMAIN served :
        LET e == served[i] IN
        HasMessage(e.req) =>
            /\ e.status = 200
            /\ e.body = get_response(e.emotion, e.score)
            /\ e.len1 = <<e.len0[1] + 1, e.len0[2] + 1>>
            /\ Len(messages) >= e.len1[1]
            /\ Len(emotion_data) >= e.len1[2]
            /\ messages[e.len1[1]].client_id = ExpectedClientId(e.req)
            /\ messages[e.len1[1]].message = e.req.message
            /\ messages[e.len1[1]].response = e.body.message
            /\ emotion_data[e.len1[2]].client_id = ExpectedClientId(e.req)

C2_Witness ==
    \E i \in DOMAIN served :
        /\ served[i].req = JsonObject("I feel hopeless", Absent, FALSE)
        /\ served[i].status = 200
        /\ served[i].body.risk_level = "high"
        /\ messages[served[i].len1[1]].client_id = "unknown"

\* ---- C3 -------------------------------------------------------------------------
\* C3: when loading the model fails or invoking it raises, the adapter yields
\* ("unknown", 0.0) and the request is answered 200 with risk_level "medium"
\* and the generic message, never 500.
C3_ClassifierFailure ==
    \A i \in DOMAIN served :
        LET e == served[i] IN
        (HasMessage(e.req) /\ e.failure # "none") =>
            /\ e.status = 200
            /\ e.emotion = "unknown"
            /\ e.score = 0
            /\ e.body = [message |-> GenericMessage, risk_level |-> "medium"]

C3_Witness ==
    /\ \E i \in DOMAIN served : served[i].failure = "load" /\ served[i].status = 200
    /\ cache = None

\* ---- C4 -------------------------------------------------------------------------
\* C4 (as amended): a request whose JSON body is an object with at least one
\* key and with no message field, or with the empty string as message, is
\* answered 400 {"error": "Empty message"} (a body that carries only client_id
\* included); the body {} is answered 400 {"error": "No JSON data received"}.
C4_EmptyMessage ==
    \A i \in DOMAIN served :
        LET e == served[i] IN
        (e.req.kind = "object" /\ e.req.message \in {Absent, ""}) =>
            /\ e.status = 400
            /\ e.body = IF e.req = JsonObject(Absent, Absent, FALSE)
                        THEN [error |-> "No JSON data received"]
                        ELSE [error |-> "Empty message"]

C4_Witness ==
    /\ \E i \in DOMAIN served :
         /\ served[i].req = JsonObject(Absent, "c1", FALSE)
         /\ served[i].body = [error |-> "Empty message"]
    /\ \E i \in DOMAIN served :
         /\ served[i].req = JsonObject(Absent, Absent, FALSE)
         /\ served[i].body = [error |-> "No JSON data received"]

\* C4 as stated: every body with no message field or with an empty message,
\* the body {} included, is answered 400 {"error": "Empty message"}.
C4_Original ==
    \A i \in DOMAIN served :
        LET e == served[i] IN
        (e.req.kind = "object" /\ e.req.message \in {Absent, ""}) =>
            /\ e.status = 400
            /\ e.body = [error |-> "Empty message"]

\* ---- C5 -------------------------------------------------------------------------
\* C5: a request with a missing body, or with a body that is not JSON, is
\* answered 400 {"error": "No JSON data received"}, not 500.
C5_NoJson ==
    \A i \in DOMAIN served :
        served[i].req.kind \in {"missing", "unparseable"} =>
            /\ served[i].status = 400
            /\ served[i].body = [error |-> "No JSON data received"]

\* ---- C6 -------------------------------------------------------------------------
\* C6: with requests handled one after another, the session log holds one
\* record per accepted request, in submission order; a request answered 400
\* leaves the log as it was and does not call the classifier; every step
\* keeps the records already in the log, in place.
C6_LogMatchesAccepted ==
    /\ Quiescent =>
         /\ Len(messages) = Len(Accepted)
         /\ Len(emotion_data) = Len(Accepted)
         /\ \A k \in DOMAIN Accepted :
              /\ messages[k].message = Accepted[k].req.message
              /\ messages[k].client_id = ExpectedClientId(Accepted[k].req)
              /\ messages[k].emotion = Accepted[k].emotion
              /\ emotion_data[k] = Projection(messages[k])
              /\ Accepted[k].len1 = <<k, k>>
    /\ \A i \in DOMAIN served :
         served[i].status = 400 =>
            /\ served[i].len1 = served[i].len0
            /\ ~served[i].analyzed

C6_LogOnlyGrows ==
    /\ IsPrefix(messages, messages')
    /\ IsPrefix(emotion_data, emotion_data')

\* C6: the log matches the accepted requests in every state, and no step
\* removes or moves a record.
C6_SessionLog == [](C6_LogMatchesAccepted) /\ [][C6_LogOnlyGrows]_vars

C6_Witness ==
    /\ Quiescent
    /\ Len(served) = 2
    /\ Len(messages) = 2
    /\ messages[1].client_id = "c2"
    /\ messages[2].client_id = "c1"

\* ---- C7 -------------------------------------------------------------------------
\* C7: with two requests handled concurrently, load_model is called once and
\* its body runs once; a second initialization never starts.
C7_SingleInit == loadCalls <= 1 /\ initRuns <= 1

\* ---- C9 -------------------------------------------------------------------------
\* C9: with requests handled concurrently, once all handlers have returned the
\* two lists hold one entry per accepted request, have the same length, and
\* the i-th EmotionSample is the projection of the i-th InteractionRecord.
C9_LogConsistent ==
    Quiescent =>
        /\ Len(messages) = Len(Accepted)
        /\ Len(emotion_data) = Len(Accepted)
        /\ \A i \in DOMAIN messages : emotion_data[i] = Projection(messages[i])

\* ---- C8 -------------------------------------------------------------------------
\* C8: send_message changes the transcript only when an HTTP 200 response was
\* received: with the server URL unset no network call is made and the
\* transcript is unchanged; with a non-200 status or a network exception the
\* transcript is unchanged and send_message returns False.
C8_TranscriptOnlyOn200 ==
    nsend > 0 =>
        LET o == lastCall.outcome IN
        /\ transcript # lastCall.before => (o.net = "response" /\ o.status = 200)
        /\ UrlUnset(lastCall.url) =>
              /\ netCalls = lastCall.calls0
              /\ transcript = lastCall.before
        /\ (~UrlUnset(lastCall.url) /\ (o.net = "exception" \/ o.status # 200)) =>
              /\ netCalls = lastCall.calls0 + 1
              /\ transcript = lastCall.before
              /\ ret = "False"

C8_Witness ==
    /\ nsend > 1
    /\ lastCall.outcome.net = "response"
    /\ lastCall.outcome.status = 500
    /\ Len(transcript) = 2
    /\ transcript = lastCall.before
    /\ ret = "False"

\* ---- C10 ------------------------------------------------------------------------
\* C10: whatever the server answered, the transcript is a sequence of pairs:
\* its length is even, every entry at an odd index (counting from 1) is a
\* user turn and the entry after it is an assistant turn with a risk_level.
C10_TranscriptPaired ==
    /\ Len(transcript) % 2 = 0
    /\ \A i \in DOMAIN transcript :
         i % 2 = 1 =>
            /\ transcript[i].role = "user"
            /\ i + 1 \in DOMAIN transcript
            /\ transcript[i + 1].role = "assistant"
            /\ transcript[i + 1].risk_level \in {"high", "medium"}

====
